---- MODULE Spec2Model ----
(***************************************************************************)
(* Model of neurom/fst/_io.py: extraction of sections from an SWC-style    *)
(* point table (extract_sections, _merge_sections, _section_end_points),   *)
(* the tree builder (make_neurites, SecDataWrapper.neurite_trunks) and     *)
(* the lazily cached point sequence of a neurite (Neurite.points).         *)
(*                                                                         *)
(* Row indices, section indices and node indices are 0-based as in the     *)
(* Python code; TLA+ sequences are 1-based, so element i of a Python list  *)
(* l is l[i + 1] here.  A point of the table is identified by its row      *)
(* index: the coordinate columns are not modelled.                         *)
(***************************************************************************)
EXTENDS Integers, Sequences, FiniteSets, TLC

\* ------------------------------------------------------------------ bounds
\* largest valid point table (rows)
MaxRows == 6
\* largest arbitrary (possibly malformed or cyclic) point table (rows)
MaxAnyRows == 3
\* rows with an index below this bound get either type tag, later rows are
\* neurite-typed
TypedRows == 3

\* ------------------------------------------------------- program constants
\* POINT_TYPE.SOMA, imported from neurom.core.dataformat
SOMA == 1
\* the "no parent" id, and the default pid of a Section
NoParent == 0 - 1
\* the type tags of the rows: soma and basal dendrite
PointTypes == {SOMA, 3}
\* the tag of the rows that are not soma-typed
NeuriteTag == CHOOSE t \in PointTypes : t # SOMA
\* the first id of a table: ids are consecutive from 0 or from 1 (SWC)
FirstIds == {0, 1}

VARIABLES
    data_block,      \* the point table: rows [id, type, p]
    pc,              \* position in the pipeline
    row,             \* extract_sections: index of the next row of the scan
    sec_end_pts,     \* extract_sections: row indices of section end points
    _gap_sections,   \* extract_sections: indices of the gap sections
    _sections,       \* extract_sections: the sections [ids, ntype, pid]
    parent_section,  \* extract_sections: last row index -> section index
    k,               \* extract_sections: index of the next section of the final pass
    post_action,     \* make_neurites: its post_action argument
    trunks,          \* make_neurites: section indices of the trunks
    i,               \* make_neurites: index of the next node to connect
    nodes,           \* make_neurites: the tree nodes
    neurites,        \* make_neurites: the Neurite objects
    _points          \* Neurite._points of each neurite: <<>> is None

vars == <<data_block, pc, row, sec_end_pts, _gap_sections, _sections,
          parent_section, k, post_action, trunks, i, nodes, neurites, _points>>

extractVars == <<row, sec_end_pts, _gap_sections, _sections, parent_section, k>>
neuriteVars == <<post_action, trunks, i, nodes, neurites, _points>>

\* ----------------------------------------------------------------- helpers
Last(s) == s[Len(s)]

Range(s) == {s[j] : j \in 1..Len(s)}

\* Python's s[1:]
Rest(s) == SubSeq(s, 2, Len(s))

RECURSIVE Reverse(_)
Reverse(s) == IF s = <<>> THEN <<>> ELSE Append(Reverse(Rest(s)), s[1])

\* Section.__init__ with its defaults
Section == [ids |-> <<>>, ntype |-> 0, pid |-> NoParent]

\* ------------------------------------------------------------ point tables
RECURSIVE ParentVecs(_)
\* parent row index of each row: the first row is the root, every other
\* row's parent is an earlier row
ParentVecs(n) ==
    IF n = 0 THEN {<<>>}
    ELSE IF n = 1 THEN {<<NoParent>>}
    ELSE {Append(v, p) : v \in ParentVecs(n - 1), p \in 0..(n - 2)}

Min(a, b) == IF a < b THEN a ELSE b

TypeVecs(n) ==
    {[j \in 1..n |-> IF j <= TypedRows THEN tv[j] ELSE NeuriteTag] :
        tv \in [1..Min(n, TypedRows) -> PointTypes]}

\* a valid table: ids first, first + 1, ...; parents given as row indices
ValidTables ==
    UNION {{[j \in 1..n |-> [id |-> first + j - 1, type |-> tv[j],
                            p |-> IF pv[j] = NoParent THEN NoParent
                                  ELSE first + pv[j]]] :
               pv \in ParentVecs(n), tv \in TypeVecs(n)} :
           n \in 0..MaxRows, first \in FirstIds}

\* an arbitrary table: unique ids, but any parent id, also the id of a later
\* row, of the row itself, or of no row (first + n)
AnyTables ==
    UNION {{[j \in 1..n |-> [id |-> first + j - 1, type |-> tv[j], p |-> pv[j]]] :
               pv \in [1..n -> {NoParent} \cup (first..(first + n))],
               tv \in TypeVecs(n)} :
           n \in 0..MaxAnyRows, first \in FirstIds}

\* ------------------------------------------------------- extract_sections
\* a lookup that falls back on a default instead of raising a KeyError
HasId_default(x) == TRUE

\* id_map has the key x
HasId(x) == x = NoParent \/ \E j \in 1..Len(data_block) : data_block[j].id = x

\* id_map[x]: the last row with that id wins
id_map(x) ==
    LET js == {j \in 1..Len(data_block) : data_block[j].id = x}
    IN  IF js = {} THEN NoParent
        ELSE (CHOOSE j \in js : \A j2 \in js : j2 <= j) - 1

\* n_children[x]
n_children(db, x) == Cardinality({j \in 1..Len(db) : db[j].p = x})

_section_end_points(db) ==
    {j - 1 : j \in {j2 \in 1..Len(db) : n_children(db, db[j2].id) # 1}}

\* a merge that leaves the pid of sec_b pointing at the emptied sec_a
_merge_sections_keep_pid(secs, a, b) ==
    LET s1 == [secs EXCEPT ![b + 1].ids = secs[a + 1].ids \o Rest(secs[b + 1].ids)]
        s2 == [s1 EXCEPT ![b + 1].ntype = s1[a + 1].ntype]
        s4 == [s2 EXCEPT ![a + 1].ids = <<>>]
    IN  [s4 EXCEPT ![a + 1].pid = NoParent]

\* the section list after _merge_sections(secs[a], secs[b]); a and b are
\* 0-based; the assignments are made in the order of the code, so that
\* a = b behaves as it does on one aliased object
_merge_sections(secs, a, b) ==
    LET s1 == [secs EXCEPT ![b + 1].ids = secs[a + 1].ids \o Rest(secs[b + 1].ids)]
        s2 == [s1 EXCEPT ![b + 1].ntype = s1[a + 1].ntype]
        s3 == [s2 EXCEPT ![b + 1].pid = s2[a + 1].pid]
        s4 == [s3 EXCEPT ![a + 1].ids = <<>>]
    IN  [s4 EXCEPT ![a + 1].pid = NoParent]

Start ==
    /\ pc = "extract_sections"
    /\ row = 0
    /\ sec_end_pts = _section_end_points(data_block)
    /\ _gap_sections = {}
    /\ _sections = <<Section>>
    /\ parent_section = (NoParent :> NoParent)
    /\ k = 0
    /\ post_action = "None"
    /\ trunks = <<>>
    /\ i = 0
    /\ nodes = <<>>
    /\ neurites = <<>>
    /\ _points = <<>>

Init == data_block \in ValidTables /\ Start

InitAny == data_block \in AnyTables /\ Start

\* a KeyError leaves extract_sections: nothing is returned
Raise ==
    /\ pc' = "raised"
    /\ UNCHANGED <<data_block, extractVars, neuriteVars>>

\* one iteration of the scan over the rows
ScanRow ==
    /\ pc = "extract_sections"
    /\ row < Len(data_block)
    /\ LET r == data_block[row + 1]
       IN  IF ~HasId(r.p) THEN Raise
           ELSE
           LET row_id == id_map(r.id)
               parent_id == id_map(r.p)
               n == Len(_sections)
               cur == _sections[n]
               cur1 == IF Len(cur.ids) = 0
                       THEN [cur EXCEPT !.ids = <<parent_id>>, !.ntype = r.type]
                       ELSE cur
               gap == parent_id # Last(cur1.ids)
               ends == IF gap THEN sec_end_pts \cup {row_id} ELSE sec_end_pts
               cur2 == IF gap THEN cur1
                       ELSE [cur1 EXCEPT !.ids = Append(@, row_id)]
               closed == [_sections EXCEPT ![n] = cur2]
           IN  /\ sec_end_pts' = ends
               /\ IF row_id \in ends
                  THEN /\ parent_section' =
                              (Last(cur2.ids) :> (n - 1)) @@ parent_section
                       /\ _sections' = Append(closed,
                              IF gap
                              THEN [Section EXCEPT !.ids = <<parent_id, row_id>>,
                                                   !.ntype = r.type]
                              ELSE Section)
                       /\ _gap_sections' = IF gap THEN _gap_sections \cup {n - 1}
                                           ELSE _gap_sections
                  ELSE /\ _sections' = closed
                       /\ UNCHANGED <<parent_section, _gap_sections>>
               /\ row' = row + 1
               /\ UNCHANGED <<data_block, pc, k, neuriteVars>>

\* one iteration of the final pass over the sections
ResolveSection ==
    /\ pc = "extract_sections"
    /\ row = Len(data_block)
    /\ k < Len(_sections)
    /\ LET sec == _sections[k + 1]
       IN  IF sec.ids # <<>> /\ sec.ids[1] \notin DOMAIN parent_section THEN Raise
           ELSE
           LET pid == IF sec.ids # <<>> THEN parent_section[sec.ids[1]] ELSE sec.pid
               s1 == [_sections EXCEPT ![k + 1].pid = pid]
           IN  /\ _sections' = IF pid \in _gap_sections
                               THEN _merge_sections(s1, pid, k)
                               ELSE s1
               /\ k' = k + 1
               /\ UNCHANGED <<data_block, pc, row, sec_end_pts, _gap_sections,
                              parent_section, neuriteVars>>

\* return _sections
ReturnSections ==
    /\ pc = "extract_sections"
    /\ row = Len(data_block)
    /\ k = Len(_sections)
    /\ pc' = "returned"
    /\ UNCHANGED <<data_block, extractVars, neuriteVars>>

NextExtract == ScanRow \/ ResolveSection \/ ReturnSections

\* -------------------------------------------------------------- the trees
\* trunks chosen without the test of the section's own type
neurite_trunks_any_type(sec) ==
    LET is == {j \in 0..(Len(sec) - 1) :
                  /\ sec[j + 1].pid > NoParent
                  /\ sec[sec[j + 1].pid + 1].ntype = SOMA}
        f[n \in 0..Len(sec)] ==
            IF n = 0 THEN <<>>
            ELSE IF (n - 1) \in is THEN Append(f[n - 1], n - 1) ELSE f[n - 1]
    IN  f[Len(sec)]

\* SecDataWrapper.neurite_trunks
neurite_trunks(sec) ==
    LET is == {j \in 0..(Len(sec) - 1) :
                  /\ sec[j + 1].pid > NoParent
                  /\ sec[sec[j + 1].pid + 1].ntype = SOMA
                  /\ sec[j + 1].ntype # SOMA}
        f[n \in 0..Len(sec)] ==
            IF n = 0 THEN <<>>
            ELSE IF (n - 1) \in is THEN Append(f[n - 1], n - 1) ELSE f[n - 1]
    IN  f[Len(sec)]

\* min(trunks)
start_node == CHOOSE t \in Range(trunks) : \A t2 \in Range(trunks) : t <= t2

\* tuple(NeuriteType), indexed from 0; NeuriteType is imported from
\* neurom.core.types
_TREE_TYPES ==
    <<"undefined", "soma", "axon", "basal_dendrite", "apical_dendrite">>

\* data_block[ids]: the rows at the indices ids; a negative index counts
\* from the end of the table
Rows(ids) ==
    [j \in 1..Len(ids) |-> IF ids[j] < 0 THEN Len(data_block) + ids[j] ELSE ids[j]]

\* Tree(value)
Tree(value) ==
    [value |-> value, type |-> "None", section_id |-> NoParent, children |-> <<>>]

\* the nodes after nds[parent].add_child(nds[child])
add_child(nds, parent, child) ==
    [nds EXCEPT ![parent + 1].children = Append(@, child)]

RECURSIVE ipreorderFrom(_, _)
\* the nodes visited from a stack of pending nodes, the top being its last
\* element
ipreorderFrom(stack, nds) ==
    IF stack = <<>> THEN <<>>
    ELSE LET cur == Last(stack)
         IN  <<cur>> \o ipreorderFrom(SubSeq(stack, 1, Len(stack) - 1)
                                         \o Reverse(nds[cur + 1].children), nds)

\* ipreorder(tree): depth-first pre-order traversal
ipreorder(root, nds) == ipreorderFrom(<<root>>, nds)

RECURSIVE Flatten(_)
Flatten(ss) == IF ss = <<>> THEN <<>> ELSE ss[1] \o Flatten(Rest(ss))

\* points that drop the first point of the trunk as well
NeuritePoints_no_first(root, nds) ==
    LET order == ipreorder(root, nds)
    IN  Flatten([j \in 1..Len(order) |-> Rest(nds[order[j] + 1].value)])

\* the value computed by Neurite.points for the neurite rooted at root
NeuritePoints(root, nds) ==
    LET order == ipreorder(root, nds)
        _pts == Flatten([j \in 1..Len(order) |-> Rest(nds[order[j] + 1].value)])
    IN  <<nds[root + 1].value[1]>> \o _pts

\* the nodes after _remove_soma_initial_point(nds[root])
_remove_soma_initial_point(nds, root) ==
    IF data_block[nds[root + 1].value[1] + 1].type = SOMA
    THEN [nds EXCEPT ![root + 1].value = Rest(@)]
    ELSE nds

\* make_neurites up to the construction of the nodes
MakeNeurites ==
    /\ pc = "returned"
    /\ \E pa \in {"None", "_remove_soma_initial_point"} : post_action' = pa
    /\ LET ts == neurite_trunks(_sections)
       IN  /\ trunks' = ts
           /\ IF Len(ts) = 0
              THEN /\ pc' = "done"
                   /\ UNCHANGED nodes
              ELSE /\ pc' = "connect"
                   /\ nodes' = [j \in 1..Len(_sections) |->
                                   Tree(Rows(_sections[j].ids))]
    /\ UNCHANGED <<data_block, extractVars, i, neurites, _points>>

\* one iteration of the pass that types the nodes and connects them
ConnectNode ==
    /\ pc = "connect"
    /\ i < Len(nodes)
    /\ LET sec == _sections[i + 1]
       IN  IF (sec.ntype + 1) \notin DOMAIN _TREE_TYPES
           THEN /\ pc' = "raised"
                /\ UNCHANGED <<i, nodes>>
           ELSE LET typed == [nodes EXCEPT ![i + 1].type = _TREE_TYPES[sec.ntype + 1],
                                           ![i + 1].section_id = i]
                IN  /\ nodes' = IF sec.pid >= start_node
                                THEN add_child(typed, sec.pid, i)
                                ELSE typed
                    /\ i' = i + 1
                    /\ pc' = pc
    /\ UNCHANGED <<data_block, extractVars, post_action, trunks, neurites, _points>>

RECURSIVE ApplyPostAction(_, _)
\* post_action(n.root_node) for every trunk in ts
ApplyPostAction(nds, ts) ==
    IF ts = <<>> THEN nds
    ELSE ApplyPostAction(_remove_soma_initial_point(nds, ts[1]), Rest(ts))

\* the neurites are made, the post action is applied, make_neurites returns
WrapNeurites ==
    /\ pc = "connect"
    /\ i = Len(nodes)
    /\ neurites' = [j \in 1..Len(trunks) |->
                       [root_node |-> trunks[j], type |-> nodes[trunks[j] + 1].type]]
    /\ _points' = [j \in 1..Len(trunks) |-> <<>>]
    /\ nodes' = IF post_action # "None" THEN ApplyPostAction(nodes, trunks)
                ELSE nodes
    /\ pc' = "done"
    /\ UNCHANGED <<data_block, extractVars, post_action, trunks, i>>

\* the first read of the points property of neurite n caches its value
Points(n) ==
    /\ pc = "done"
    /\ _points[n] = <<>>
    /\ _points' = [_points EXCEPT
                      ![n] = <<NeuritePoints(neurites[n].root_node, nodes)>>]
    /\ UNCHANGED <<data_block, pc, extractVars, post_action, trunks, i, nodes,
                   neurites>>

Next ==
    \/ ScanRow
    \/ ResolveSection
    \/ ReturnSections
    \/ MakeNeurites
    \/ ConnectNode
    \/ WrapNeurites
    \/ \E n \in 1..Len(neurites) : Points(n)

Spec == Init /\ [][Next]_vars

SpecAny == InitAny /\ [][NextExtract]_vars

\* ------------------------------------------------------------------ claims
\* the table of the claims: unique ids, exactly one root, whose parent is
\* NoParent, and the parent of every other row is an earlier row
ValidTable ==
    LET n == Len(data_block)
    IN  /\ \A j1, j2 \in 1..n : data_block[j1].id = data_block[j2].id => j1 = j2
        /\ Cardinality({j \in 1..n : data_block[j].p = NoParent}) = 1
        /\ \A j \in 1..n : \/ data_block[j].p = NoParent
                           \/ \E j2 \in 1..(j - 1) : data_block[j2].id = data_block[j].p

\* extract_sections has returned _sections
Returned == pc \notin {"extract_sections", "raised"}

\* the <<section, position>> pairs at which row index r occurs in a
\* non-first position
NonFirst(r) ==
    UNION {{<<s, j>> : j \in {j2 \in 2..Len(_sections[s].ids) :
                                 _sections[s].ids[j2] = r}} :
           s \in 1..Len(_sections)}

\* number of rows whose parent is the row with index r
ChildCount(r) ==
    Cardinality({j \in 1..Len(data_block) : data_block[j].p = data_block[r + 1].id})

\* the sections emptied by a merge
Tombstones == {s \in _gap_sections : s < Len(_sections) /\ _sections[s + 1].ids = <<>>}

\* C1: in the list returned for a valid table every row index occurs in a
\* non-first position of exactly one section
C1_Coverage ==
    (ValidTable /\ Returned) =>
        \A r \in 0..(Len(data_block) - 1) : Cardinality(NonFirst(r)) = 1

\* C2: in the list returned for a valid table a point whose child count is
\* not 1 is never at an interior position of a section
C2_BoundaryFidelity ==
    (ValidTable /\ Returned) =>
        \A s \in 1..Len(_sections) :
            \A j \in 2..(Len(_sections[s].ids) - 1) :
                ChildCount(_sections[s].ids[j]) = 1

\* C3: in the returned list every non-empty section with a parent has a
\* non-empty parent section, whose last point is the section's first point
C3_BoundaryDuplication ==
    Returned =>
        \A s \in 1..Len(_sections) :
            (_sections[s].ids # <<>> /\ _sections[s].pid # NoParent) =>
                /\ _sections[s].pid \in 0..(Len(_sections) - 1)
                /\ _sections[_sections[s].pid + 1].ids # <<>>
                /\ _sections[s].ids[1] = Last(_sections[_sections[s].pid + 1].ids)

\* C3 witness: a returned section that absorbed a chain of two gap sections
\* and has a parent section
C3_Witness ==
    /\ Returned
    /\ \E s \in 1..Len(_sections) :
          /\ _sections[s].pid # NoParent
          /\ Cardinality({t \in Tombstones :
                \E j \in 2..(Len(_sections[s].ids) - 1) :
                    /\ _sections[s].ids[j] \in DOMAIN parent_section
                    /\ parent_section[_sections[s].ids[j]] = t}) >= 2

RECURSIVE ReachesRoot(_, _)
\* following pid from section s (0-based) reaches NoParent in at most n steps
ReachesRoot(s, n) ==
    \/ s = NoParent
    \/ /\ n > 0
       /\ s \in 0..(Len(_sections) - 1)
       /\ ReachesRoot(_sections[s + 1].pid, n - 1)

\* C4: the pid relation of a returned section list is a forest, whatever
\* the table
C4_Acyclic ==
    Returned =>
        \A s \in 0..(Len(_sections) - 1) : ReachesRoot(s, Len(_sections))

\* C5: no node of the returned node sequence is built from a section with
\* empty ids
C5_NoTombstoneNode ==
    pc = "done" => \A j \in 1..Len(nodes) : _sections[j].ids # <<>>

RECURSIVE PreOrderWalk(_, _)
\* pre-order walk of the subtree of node n: the node, then the walks of its
\* children in attachment order
PreOrderWalk(n, nds) ==
    LET ch == nds[n + 1].children
    IN  <<n>> \o Flatten([j \in 1..Len(ch) |-> PreOrderWalk(ch[j], nds)])

RECURSIVE Sum(_)
Sum(s) == IF s = <<>> THEN 0 ELSE s[1] + Sum(Rest(s))

\* C6: the cached points of a neurite are all points of the trunk followed,
\* in pre-order, by the points but the first of every other node of the
\* subtree; their number is len(trunk) + the sum of len(node) - 1
C6_Points ==
    \A n \in 1..Len(_points) :
        _points[n] # <<>> =>
            LET root == neurites[n].root_node
                others == Rest(PreOrderWalk(root, nodes))
            IN  /\ _points[n][1] =
                       nodes[root + 1].value \o
                       Flatten([j \in 1..Len(others) |->
                                   Rest(nodes[others[j] + 1].value)])
                /\ Len(_points[n][1]) =
                       Len(nodes[root + 1].value) +
                       Sum([j \in 1..Len(others) |->
                               Len(nodes[others[j] + 1].value) - 1])

\* C6 witness: the points of a 3-point trunk with two 2-point children have
\* been computed, and there are 5 of them
C6_Witness ==
    \E n \in 1..Len(_points) :
        /\ _points[n] # <<>>
        /\ Len(_points[n][1]) = 5
        /\ LET t == nodes[neurites[n].root_node + 1]
           IN  /\ Len(t.value) = 3
               /\ Len(t.children) = 2
               /\ \A j \in 1..2 : Len(nodes[t.children[j] + 1].value) = 2

\* the rows whose parent id is neither NoParent nor the id of a row
MalformedRows ==
    {j - 1 : j \in {j2 \in 1..Len(data_block) :
        /\ data_block[j2].p # NoParent
        /\ \A j3 \in 1..Len(data_block) : data_block[j3].id # data_block[j2].p}}

\* C7: for a table with a malformed parent reference extract_sections never
\* returns: the scan does not get past the first offending row, where it
\* raises
C7_MalformedIsFatal ==
    MalformedRows # {} =>
        /\ pc \in {"extract_sections", "raised"}
        /\ pc = "extract_sections" => \A m \in MalformedRows : row <= m

\* C7 witness: the error is raised at the last row of a table, after
\* sections have been closed
C7_Witness ==
    /\ pc = "raised"
    /\ MalformedRows = {Len(data_block) - 1}
    /\ row = Len(data_block) - 1
    /\ Len(_sections) > 1

\* no section is non-soma with a soma-typed parent section
NoTrunk ==
    \A s \in 1..Len(_sections) :
        ~ /\ _sections[s].pid > NoParent
          /\ _sections[_sections[s].pid + 1].ntype = SOMA
          /\ _sections[s].ntype # SOMA

\* C8: when there is no trunk, make_neurites returns at once two empty
\* sequences
C8_NoTrunks ==
    [][(pc = "returned" /\ NoTrunk) =>
           (pc' = "done" /\ neurites' = <<>> /\ nodes' = <<>>)]_vars

\* C8 witness: make_neurites has returned two empty sequences for a table
\* of several sections, all of them soma-typed or empty
C8_Witness ==
    /\ pc = "done"
    /\ NoTrunk
    /\ neurites = <<>> /\ nodes = <<>>
    /\ Len(_sections) > 2
    /\ \A j \in 1..Len(data_block) : data_block[j].type = SOMA

\* C9: the parent of every add_child edge is a node of a section that is
\* not soma-typed, so no trunk is the child of a node
C9_OnlyNeuriteEdges ==
    \A j \in 1..Len(nodes) :
        nodes[j].children # <<>> =>
            /\ _sections[j].ntype # SOMA
            /\ \A c \in Range(nodes[j].children) : c \notin Range(trunks)

\* C10: extract_sections raises no error on a valid table
C10_Completion == ValidTable => pc # "raised"

====
